---- MODULE Spec2Model ----
(***************************************************************************)
(* Model of get_latest_releases.py: the release fetcher (paging,           *)
(* classification, accumulation) and the release writer, driven by main.   *)
(* Strings are sequences of one-character strings so that lower(),         *)
(* substring tests, split('/') and startswith() are computed, not assumed. *)
(***************************************************************************)
EXTENDS Integers, Sequences, FiniteSets, TLC

(* ---------------------------------------------------------------------- *)
(* Bounds of the model                                                     *)
(* ---------------------------------------------------------------------- *)

\* Page size requested from the API.  The source asks for 100 records per
\* page (get_latest_releases.py:273); the model scales the page down.
per_page == 3

\* Total number of release records the API serves during one run.
MaxReleases == 4

(* ---------------------------------------------------------------------- *)
(* Strings                                                                 *)
(* ---------------------------------------------------------------------- *)

EmptyStr == << >>

LowerChar(c) ==
  CASE c = "A" -> "a"
    [] c = "B" -> "b"
    [] c = "V" -> "v"
    [] c = "O" -> "o"
    [] c = "N" -> "n"
    [] c = "P" -> "p"
    [] c = "R" -> "r"
    [] OTHER -> c

\* str.lower()
lower(s) == [i \in DOMAIN s |-> LowerChar(s[i])]

\* sub in s
Contains(sub, s) ==
  \E i \in 0..(Len(s) - Len(sub)) : SubSeq(s, i + 1, i + Len(sub)) = sub

\* s.startswith(p)
StartsWith(s, p) == Len(p) <= Len(s) /\ SubSeq(s, 1, Len(p)) = p

HasSlash(s) == \E i \in DOMAIN s : s[i] = "/"

FirstSlash(s) == CHOOSE i \in DOMAIN s : s[i] = "/" /\ \A j \in 1..(i - 1) : s[j] # "/"

\* s.split('/')
RECURSIVE Split(_)
Split(s) ==
  IF HasSlash(s)
    THEN <<SubSeq(s, 1, FirstSlash(s) - 1)>> \o Split(SubSeq(s, FirstSlash(s) + 1, Len(s)))
    ELSE <<s>>

IsSpace(c) == c = " "

UpperChar(c) ==
  CASE c = "a" -> "A"
    [] c = "b" -> "B"
    [] c = "d" -> "D"
    [] c = "o" -> "O"
    [] c = "p" -> "P"
    [] c = "q" -> "Q"
    [] c = "r" -> "R"
    [] OTHER -> c

\* str.upper()
upper(s) == [i \in DOMAIN s |-> UpperChar(s[i])]

\* s.replace(old, new) for one-character strings
replace(s, old, new) == [i \in DOMAIN s |-> IF s[i] = old THEN new ELSE s[i]]

\* s.split(sep)
RECURSIVE SplitOn(_, _)
SplitOn(s, sep) ==
  IF \E i \in DOMAIN s : s[i] = sep
    THEN LET i == CHOOSE i \in DOMAIN s : s[i] = sep /\ \A j \in 1..(i - 1) : s[j] # sep
         IN  <<SubSeq(s, 1, i - 1)>> \o SplitOn(SubSeq(s, i + 1, Len(s)), sep)
    ELSE <<s>>

\* s.strip()
RECURSIVE Strip(_)
Strip(s) ==
  IF s = EmptyStr THEN s
  ELSE IF IsSpace(s[1]) THEN Strip(Tail(s))
  ELSE IF IsSpace(s[Len(s)]) THEN Strip(SubSeq(s, 1, Len(s) - 1))
  ELSE s

(* ---------------------------------------------------------------------- *)
(* Release records served by the API, and ReleaseInfo                      *)
(* ---------------------------------------------------------------------- *)

\* Python's None
None == [none |-> TRUE]

\* truthiness of an Optional[ReleaseInfo]: instances are always truthy
Truthy(x) == x # None

NoNotes ==
  <<"N","o"," ","r","e","l","e","a","s","e"," ","n","o","t","e","s"," ",
    "p","r","o","v","i","d","e","d",".">>

Rec(name, tag, body, draft, pre) ==
  [name |-> name, tag_name |-> tag, body |-> body, draft |-> draft, prerelease |-> pre]

R1 == Rec(EmptyStr, <<"v","1">>, <<"x">>, FALSE, FALSE)
R2 == Rec(EmptyStr, <<"v","2">>, EmptyStr, FALSE, TRUE)
R3 == Rec(EmptyStr, <<"a","/","v","3">>, EmptyStr, FALSE, FALSE)
R4 == Rec(EmptyStr, <<"a","/","v","4">>, EmptyStr, FALSE, TRUE)
R5 == Rec(EmptyStr, <<"a","/","v","5">>, EmptyStr, FALSE, FALSE)
R6 == Rec(EmptyStr, <<"v","6">>, EmptyStr, TRUE, FALSE)

\* the release records the API can return
Catalog == {R1, R2, R3, R4, R5, R6}

\* ReleaseInfo(release['tag_name'], release['body'] or "No release notes provided.",
\*             release['prerelease'])
ReleaseInfo(tag, body, is_prerelease) ==
  [tag |-> tag, body |-> body, is_prerelease |-> is_prerelease]

MakeReleaseInfo(release) ==
  ReleaseInfo(release.tag_name,
              IF release.body # EmptyStr THEN release.body ELSE NoNotes,
              release.prerelease)

(* ---------------------------------------------------------------------- *)
(* Dictionaries (insertion ordered): sequences of [k, v] entries           *)
(* ---------------------------------------------------------------------- *)

Has(d, k) == \E n \in DOMAIN d : d[n].k = k

Get(d, k) == d[CHOOSE n \in DOMAIN d : d[n].k = k].v

\* d[k] = v
Put(d, k, v) ==
  IF Has(d, k)
    THEN [n \in DOMAIN d |-> IF d[n].k = k THEN [k |-> k, v |-> v] ELSE d[n]]
    ELSE Append(d, [k |-> k, v |-> v])

Keys(d) == {d[n].k : n \in DOMAIN d}

(* ---------------------------------------------------------------------- *)
(* get_latest_releases: classification and accumulation                    *)
(* ---------------------------------------------------------------------- *)

\* the value a new accumulator slot starts with
EmptySlot(history) == IF history THEN << >> ELSE <<None, None>>

\* for artifact in configured_artifacts: artifacts_releases[artifact] = ...
RECURSIVE InitReleases(_, _)
InitReleases(configured, history) ==
  IF configured = << >> THEN << >>
  ELSE Put(InitReleases(SubSeq(configured, 1, Len(configured) - 1), history),
           configured[Len(configured)], EmptySlot(history))

\* the neutral result of the "no releases" and the RequestException paths
NeutralResult == <<[k |-> EmptyStr, v |-> <<None, None>>]>>

\* a loop that does not look at the draft flag
IsDraftNever(release) == FALSE

\* if release['draft']: continue
IsDraft(release) == release.draft

\* one configured artifact matches a release
ArtifactMatches(artifact, release) ==
  /\ artifact # EmptyStr
  /\ \/ Contains(lower(artifact), lower(release.name))
     \/ Contains(lower(artifact), lower(release.tag_name))
     \/ Contains(lower(artifact), lower(release.body))

\* a loop without its break: the last artifact that matches, else ''
RECURSIVE MatchConfiguredLast(_, _)
MatchConfiguredLast(configured, release) ==
  IF configured = << >> THEN EmptyStr
  ELSE IF MatchConfiguredLast(Tail(configured), release) # EmptyStr
    THEN MatchConfiguredLast(Tail(configured), release)
  ELSE IF ArtifactMatches(Head(configured), release) THEN Head(configured)
  ELSE EmptyStr

\* the loop over configured_artifacts: the first artifact that matches, else ''
RECURSIVE MatchConfigured(_, _)
MatchConfigured(configured, release) ==
  IF configured = << >> THEN EmptyStr
  ELSE IF ArtifactMatches(Head(configured), release) THEN Head(configured)
  ELSE MatchConfigured(Tail(configured), release)

\* the tag-derived fallback applies
TagDerived(configured, release) ==
  MatchConfigured(configured, release) = EmptyStr /\ HasSlash(release.tag_name)

\* a fallback that splits the lowercased tag
MatchedArtifactLower(configured, release) ==
  IF TagDerived(configured, release)
    THEN Split(lower(release.tag_name))[1]
    ELSE MatchConfigured(configured, release)

\* matched_artifact at the storage step
MatchedArtifact(configured, release) ==
  IF TagDerived(configured, release)
    THEN Split(release.tag_name)[1]
    ELSE MatchConfigured(configured, release)

\* the accumulator after the tag-derived fallback has created its slot
WithDerivedSlot(d, configured, release, history) ==
  IF TagDerived(configured, release) /\ ~Has(d, MatchedArtifact(configured, release))
    THEN Put(d, MatchedArtifact(configured, release), EmptySlot(history))
    ELSE d

\* artifacts_releases[matched_artifact].append(...) on a missing key
RaisesKeyError(d, key, history) == history /\ ~Has(d, key)

\* latest-only storage that does not look at the slot it fills
StoreLatestOverwrite(d, key, info) ==
  LET cur == IF Has(d, key) THEN Get(d, key) ELSE <<None, None>>
  IN  IF info.is_prerelease THEN Put(d, key, <<cur[1], info>>)
      ELSE Put(d, key, <<info, cur[2]>>)

\* latest-only storage: fill a slot only when it is empty
StoreLatest(d, key, info) ==
  LET cur == IF Has(d, key) THEN Get(d, key) ELSE <<None, None>>
  IN  IF info.is_prerelease /\ ~Truthy(cur[2]) THEN Put(d, key, <<cur[1], info>>)
      ELSE IF ~info.is_prerelease /\ ~Truthy(cur[1]) THEN Put(d, key, <<info, cur[2]>>)
      ELSE d

\* history storage: append
StoreHistory(d, key, info) == Put(d, key, Append(Get(d, key), info))

\* all(stable and pre for stable, pre in artifacts_releases.values())
AllFilled(d) == \A n \in DOMAIN d : Truthy(d[n].v[1]) /\ Truthy(d[n].v[2])

\* a rate-limit path that hands back the neutral result
RateLimitResultNeutral(d) == NeutralResult

\* the result returned when the rate limit is detected on a page response
RateLimitResult(d) == d

(* ---------------------------------------------------------------------- *)
(* save_release_notes: paths and document                                  *)
(* ---------------------------------------------------------------------- *)

VARIABLE artifacts_root  \* self.artifacts_root

\* built-in default of get_artifacts_path
DefaultArtifactsPath == <<"a","r","t","i","f","a","c","t","s">>

NonEmpty(s) == s # EmptyStr

\* Path / segment: a segment is split at "/" and empty parts vanish
JoinPath(path, segment) == path \o SelectSeq(Split(segment), NonEmpty)

\* base_path
BasePath(owner, repo, artifact) ==
  IF artifact # EmptyStr
    THEN JoinPath(JoinPath(JoinPath(JoinPath(<< >>, artifacts_root), owner), repo), artifact)
    ELSE JoinPath(JoinPath(JoinPath(<< >>, artifacts_root), owner), repo)

\* a clean-up that removes the prefix as often as the tag begins with it
RECURSIVE CleanTagEvery(_, _)
CleanTagEvery(artifact, tag) ==
  IF artifact # EmptyStr /\ StartsWith(tag, artifact \o <<"/">>)
    THEN CleanTagEvery(artifact, SubSeq(tag, Len(artifact) + 2, Len(tag)))
    ELSE tag

\* the tag with a leading "artifact/" removed
CleanTag(artifact, tag) ==
  IF artifact # EmptyStr /\ StartsWith(tag, artifact \o <<"/">>)
    THEN SubSeq(tag, Len(artifact) + 2, Len(tag))
    ELSE tag

\* filepath = base_path / f"{tag}.md"
FilePath(owner, repo, artifact, tag) ==
  JoinPath(BasePath(owner, repo, artifact), CleanTag(artifact, tag) \o <<".","m","d">>)

ReleaseType(is_prerelease) ==
  IF is_prerelease THEN <<"P","r","e","-","r","e","l","e","a","s","e">>
  ELSE <<"S","t","a","b","l","e"," ","R","e","l","e","a","s","e">>

FullPath(owner, repo, artifact) ==
  owner \o <<"/">> \o repo \o (IF artifact # EmptyStr THEN <<"/">> \o artifact ELSE << >>)

\* the document written for a release
Content(owner, repo, artifact, release) ==
  <<"#"," ">> \o FullPath(owner, repo, artifact) \o <<" ","-"," ">> \o release.tag
    \o <<" ","(">> \o ReleaseType(release.is_prerelease) \o <<")","\n","\n">>
    \o <<"#","#"," ","R","e","l","e","a","s","e"," ","N","o","t","e","s","\n","\n">>
    \o release.body \o <<"\n">>

\* all directories mkdir(parents=True) makes sure exist
Parents(path) == {SubSeq(path, 1, n) : n \in 1..Len(path)}

(* ---------------------------------------------------------------------- *)
(* Inputs                                                                  *)
(* ---------------------------------------------------------------------- *)

RepoOR == <<"o","/","r">>
RepoPQ == <<" ","p","/","q">>
RepoBad == <<"b","a","d">>

\* main's repositories before get_repositories has returned a list, and when
\* no source yields one
NoRepositories == << >>

\* names of the environment variables
ARTIFACTS_PATH == <<"ARTIFACTS_PATH">>
DEBUG_ENV_VAR == <<"GITHUB_RELEASES_DEBUG">>
ARTIFACT_HISTORY == <<"ARTIFACT_HISTORY">>
ENV_VAR_NAME == <<"GITHUB_REPOS">>

\* f'MONOREPO_ARTIFACTS_{repo.replace("/", "_").upper()}'
MonorepoEnvName(repo) == <<"MONOREPO_ARTIFACTS_">> \o upper(replace(repo, "/", "_"))

\* names of the command-line options
OptArtifactsPath == <<"--artifacts-path">>
OptDebug == <<"--debug">>
OptHistory == <<"--history">>
OptRepos == <<"--repos">>

\* f'--artifacts-{repo.replace("/", "-")}'
MonorepoOption(repo) == <<"--artifacts-">> \o replace(repo, "/", "-")

\* the attribute argparse stores the value of that option under: the option
\* without its leading dashes, every "-" turned into "_"
MonorepoDest(repo) == <<"artifacts_">> \o replace(replace(repo, "/", "-"), "-", "_")

\* arg_name = f'artifacts_{repo.replace("/", "_")}'
MonorepoArgName(repo) == <<"artifacts_">> \o replace(repo, "/", "_")

\* CONFIG_FILE_NAMES = ["repos.cfg", "repos.conf"]: a configuration file that
\* exists or not, with its values by <<section, key>>
ConfigFile(exists, values) == [exists |-> exists, values |-> values]

NoConfigFile == ConfigFile(FALSE, << >>)

\* one binding of a dictionary
Bind(k, v) == [k |-> k, v |-> v]

\* the environments of a run: GITHUB_REPOS="o/r,bad, p/q" or unset,
\* ARTIFACT_HISTORY="true" or unset, MONOREPO_ARTIFACTS_O_R="a" or unset
RunEnvirons ==
  {repos \o history \o artifacts :
     repos \in {<< >>, <<Bind(ENV_VAR_NAME,
                               <<"o","/","r",",","b","a","d",","," ","p","/","q">>)>>},
     history \in {<< >>, <<Bind(ARTIFACT_HISTORY, <<"t","r","u","e">>)>>},
     artifacts \in {<< >>, <<Bind(MonorepoEnvName(RepoOR), <<"a">>)>>}}

\* X-RateLimit-Remaining header: absent, or its value
NoHeader == -1

RemainingValues == {NoHeader, 0, 1}

\* pages of at most n records
RECURSIVE PagesUpTo(_)
PagesUpTo(n) ==
  IF n = 0 THEN {<< >>}
  ELSE PagesUpTo(n - 1) \cup {Append(p, r) : p \in {q \in PagesUpTo(n - 1) : Len(q) = n - 1}, r \in Catalog}

Min(a, b) == IF a < b THEN a ELSE b

\* the header values of a successful response: the code reads the header of
\* such a response only after a full page
RemainingOf(p) == IF Len(p) = per_page THEN RemainingValues ELSE {NoHeader}

\* the responses of the release listing endpoint; status 0 stands for a
\* network failure raised by session.get
Responses(budget) ==
  UNION {{[status |-> 200, remaining |-> rem, releases |-> p] : rem \in RemainingOf(p)} :
            p \in PagesUpTo(Min(per_page, budget))}
  \cup {[status |-> 403, remaining |-> rem, releases |-> << >>] : rem \in RemainingValues}
  \cup {[status |-> 500, remaining |-> NoHeader, releases |-> << >>],
        [status |-> 0, remaining |-> NoHeader, releases |-> << >>]}

\* status 403 with X-RateLimit-Remaining present and equal to 0
RateLimited(response) ==
  response.status = 403 /\ response.remaining # NoHeader /\ response.remaining = 0

\* session.get raised, or raise_for_status raises
RaisesRequestException(response) == response.status # 200

(* ---------------------------------------------------------------------- *)
(* State                                                                   *)
(* ---------------------------------------------------------------------- *)

VARIABLES
  pc,                 \* position of the program
  exit_status,        \* exit status of the process
  exception,          \* the exception that ended the process, "" if none
  environ,            \* os.environ
  argv,               \* the command line: options given, with their values
  config_files,       \* repos.cfg and repos.conf
  debug,              \* self.debug
  fetch_history,      \* self.fetch_history
  repositories,       \* main: repositories
  repo_idx,           \* main: position of the for loop
  owner,              \* process_repository: owner
  repo_name,          \* process_repository: repo_name
  artifacts_releases, \* get_latest_releases: the accumulator
  page,               \* get_latest_releases: page
  response,           \* get_latest_releases: response of the current page
  rel_idx,            \* get_latest_releases: position of "for release in releases"
  fetched,            \* the records of all pages received for this repository
  processed,          \* the records the for loop has taken up for this repository
  served,             \* number of records the API has served in this run
  ret_path,           \* the return statement get_latest_releases left through
  result,             \* process_repository: artifacts_releases
  art_idx,            \* process_repository: position of the loop over items()
  item_idx,           \* process_repository: position of the loop over releases
  written,            \* process_repository: written
  skipped,            \* process_repository: skipped
  summary,            \* process_repository: summary
  files,              \* the files of the output tree: [path, content]
  dirs                \* the directories of the output tree

vars ==
  <<pc, exit_status, exception, environ, argv, config_files, artifacts_root, debug,
    fetch_history, repositories, repo_idx,
    owner, repo_name, artifacts_releases, page, response, rel_idx, fetched, processed,
    served, ret_path, result, art_idx, item_idx, written, skipped, summary, files, dirs>>

config_vars == <<environ, argv, config_files, artifacts_root, debug, fetch_history>>
fetch_vars == <<artifacts_releases, page, response, rel_idx, fetched, processed>>
write_vars == <<art_idx, item_idx, written, skipped, summary>>
fs_vars == <<files, dirs>>

NoResponse == [status |-> -1, remaining |-> NoHeader, releases |-> << >>]

(* ---------------------------------------------------------------------- *)
(* Configuration: environment, command line, config file, default          *)
(* ---------------------------------------------------------------------- *)

\* os.getenv(name) is a non-empty string
EnvTruthy(name) == Has(environ, name) /\ Get(environ, name) # EmptyStr

\* args.<option> is a non-empty string, or a flag that was given
ArgTruthy(option) == Has(argv, option) /\ Get(argv, option) # EmptyStr

\* the configuration files, in the order of CONFIG_FILE_NAMES, that exist and
\* have the key in the section
FilesWith(section, key) ==
  SelectSeq(config_files, LAMBDA f : f.exists /\ Has(f.values, <<section, key>>))

InConfig(section, key) == FilesWith(section, key) # << >>

\* the value of the first such file
ConfigValue(section, key) == Get(FilesWith(section, key)[1].values, <<section, key>>)

\* s.lower() in ('true', '1', 'yes', 'on')
TrueStrings == {<<"t","r","u","e">>, <<"1">>, <<"y","e","s">>, <<"o","n">>}

IsTrue(s) == lower(s) \in TrueStrings

get_artifacts_path ==
  IF EnvTruthy(ARTIFACTS_PATH) THEN Get(environ, ARTIFACTS_PATH)
  ELSE IF ArgTruthy(OptArtifactsPath) THEN Get(argv, OptArtifactsPath)
  ELSE IF InConfig("artifacts", "path") THEN ConfigValue("artifacts", "path")
  ELSE DefaultArtifactsPath

get_debug_setting ==
  IF Has(environ, DEBUG_ENV_VAR) THEN IsTrue(Get(environ, DEBUG_ENV_VAR))
  ELSE IF Has(argv, OptDebug) THEN TRUE
  ELSE IF InConfig("settings", "debug") THEN IsTrue(ConfigValue("settings", "debug"))
  ELSE FALSE

get_history_setting ==
  IF Has(environ, ARTIFACT_HISTORY) THEN IsTrue(Get(environ, ARTIFACT_HISTORY))
  ELSE IF Has(argv, OptHistory) THEN TRUE
  ELSE IF InConfig("artifacts", "history") THEN IsTrue(ConfigValue("artifacts", "history"))
  ELSE FALSE

\* get_repositories reaches sys.exit(1)
NoRepositoriesSpecified ==
  ~EnvTruthy(ENV_VAR_NAME) /\ ~ArgTruthy(OptRepos) /\ ~InConfig("repositories", "repos")

\* the list get_repositories returns
RepositoriesSpecified ==
  IF EnvTruthy(ENV_VAR_NAME) THEN SplitOn(Get(environ, ENV_VAR_NAME), ",")
  ELSE IF ArgTruthy(OptRepos) THEN SplitOn(Get(argv, OptRepos), ",")
  ELSE SplitOn(ConfigValue("repositories", "repos"), ",")

\* hasattr(args, arg_name) and getattr(args, arg_name): the parser declares
\* the one option of this repository
MonorepoArgTruthy(repo) ==
  MonorepoDest(repo) = MonorepoArgName(repo) /\ ArgTruthy(MonorepoOption(repo))

\* get_monorepo_artifacts(repo); configparser keeps and looks up keys in lowercase
get_monorepo_artifacts(repo) ==
  IF EnvTruthy(MonorepoEnvName(repo)) THEN SplitOn(Get(environ, MonorepoEnvName(repo)), ",")
  ELSE IF MonorepoArgTruthy(repo) THEN SplitOn(Get(argv, MonorepoOption(repo)), ",")
  ELSE IF InConfig("monorepos", lower(repo)) THEN SplitOn(ConfigValue("monorepos", lower(repo)), ",")
  ELSE <<EmptyStr>>

\* configured_artifacts of the running fetch
configured_artifacts == get_monorepo_artifacts(owner \o <<"/">> \o repo_name)

Init ==
  /\ pc = "main"
  /\ exit_status = 0
  /\ exception = ""
  /\ environ \in RunEnvirons
  /\ argv = << >>
  /\ config_files = <<NoConfigFile, NoConfigFile>>
  /\ artifacts_root = get_artifacts_path
  /\ debug = get_debug_setting
  /\ fetch_history = get_history_setting
  /\ repositories = << >>
  /\ repo_idx = 1
  /\ owner = EmptyStr
  /\ repo_name = EmptyStr
  /\ artifacts_releases = << >>
  /\ page = 1
  /\ response = NoResponse
  /\ rel_idx = 1
  /\ fetched = << >>
  /\ processed = << >>
  /\ served = 0
  /\ ret_path = "none"
  /\ result = << >>
  /\ art_idx = 1
  /\ item_idx = 1
  /\ written = 0
  /\ skipped = 0
  /\ summary = << >>
  /\ files = {}
  /\ dirs = {}

(* ---------------------------------------------------------------------- *)
(* main                                                                    *)
(* ---------------------------------------------------------------------- *)

\* an uncaught exception ends the process with a non-zero status
Crash(name) ==
  /\ pc' = "exit"
  /\ exit_status' = 1
  /\ exception' = name

\* a resolver that returns an empty list when no source has one
get_repositories_or_none ==
  /\ pc = "main"
  /\ repositories' = IF NoRepositoriesSpecified THEN << >> ELSE RepositoriesSpecified
  /\ pc' = "loop"
  /\ UNCHANGED <<exit_status, exception, config_vars, repo_idx, owner, repo_name,
                 fetch_vars, served, ret_path, result, write_vars, fs_vars>>

\* fetcher.get_repositories(): the list of the first source that has one,
\* sys.exit(1) when there is none
get_repositories ==
  /\ pc = "main"
  /\ IF NoRepositoriesSpecified
       THEN /\ Crash("SystemExit")
            /\ UNCHANGED repositories
       ELSE /\ repositories' = RepositoriesSpecified
            /\ pc' = "loop"
            /\ UNCHANGED <<exit_status, exception>>
  /\ UNCHANGED <<config_vars, repo_idx, owner, repo_name, fetch_vars, served,
                 ret_path, result, write_vars, fs_vars>>

\* the for loop of main is exhausted
main_done ==
  /\ pc = "loop"
  /\ repo_idx > Len(repositories)
  /\ pc' = "exit"
  /\ UNCHANGED <<exit_status, exception, config_vars, repositories, repo_idx, owner,
                 repo_name, fetch_vars, served, ret_path, result, write_vars, fs_vars>>

(* ---------------------------------------------------------------------- *)
(* process_repository, first part, and the start of get_latest_releases    *)
(* ---------------------------------------------------------------------- *)

\* a test that only looks for a missing "/"
InvalidRepositoryNoSlash(repo) == ~HasSlash(Strip(repo))

\* owner, repo_name = repo.strip().split('/') raises ValueError
InvalidRepository(repo) == Len(Split(Strip(repo))) # 2

process_repository ==
  /\ pc = "loop"
  /\ repo_idx <= Len(repositories)
  /\ LET repo == repositories[repo_idx]
         parts == Split(Strip(repo))
     IN  IF InvalidRepository(repo)
           THEN /\ repo_idx' = repo_idx + 1
                /\ UNCHANGED <<pc, owner, repo_name, artifacts_releases>>
           ELSE /\ owner' = parts[1]
                /\ repo_name' = parts[2]
                /\ artifacts_releases' =
                     InitReleases(get_monorepo_artifacts(parts[1] \o <<"/">> \o parts[2]),
                                  fetch_history)
                /\ pc' = "request"
                /\ UNCHANGED repo_idx
  /\ UNCHANGED <<exit_status, exception, config_vars, repositories, page, response,
                 rel_idx, fetched, processed, served, ret_path, result, write_vars,
                 fs_vars>>

(* ---------------------------------------------------------------------- *)
(* get_latest_releases: the paging loop                                    *)
(* ---------------------------------------------------------------------- *)

\* a return statement of get_latest_releases
Return(path, value) ==
  /\ ret_path' = path
  /\ result' = value
  /\ pc' = "returned"

\* one pass of "while True" up to the for loop: request a page and look at
\* the response
request_page ==
  /\ pc = "request"
  /\ \E resp \in Responses(MaxReleases - served) :
       /\ response' = resp
       /\ IF resp.status = 0
            THEN /\ Return("request_exception", NeutralResult)
                 /\ UNCHANGED <<rel_idx, fetched, served>>
          ELSE IF RateLimited(resp)
            THEN /\ Return("rate_limit", RateLimitResult(artifacts_releases))
                 /\ UNCHANGED <<rel_idx, fetched, served>>
          ELSE IF RaisesRequestException(resp)
            THEN /\ Return("request_exception", NeutralResult)
                 /\ UNCHANGED <<rel_idx, fetched, served>>
          ELSE IF resp.releases = << >>
            THEN /\ IF page = 1
                      THEN Return("no_releases", NeutralResult)
                      ELSE Return("normal", artifacts_releases)
                 /\ UNCHANGED <<rel_idx, fetched, served>>
          ELSE /\ pc' = "for"
               /\ rel_idx' = 1
               /\ fetched' = fetched \o resp.releases
               /\ served' = served + Len(resp.releases)
               /\ UNCHANGED <<ret_path, result>>
  /\ UNCHANGED <<exit_status, exception, config_vars, repositories, repo_idx, owner,
                 repo_name, artifacts_releases, page, processed, write_vars, fs_vars>>

\* one iteration of "for release in releases"
process_release ==
  /\ pc = "for"
  /\ LET release == response.releases[rel_idx]
         key == MatchedArtifact(configured_artifacts, release)
         slotted == WithDerivedSlot(artifacts_releases, configured_artifacts, release,
                                    fetch_history)
         info == MakeReleaseInfo(release)
         stored == IF fetch_history THEN StoreHistory(slotted, key, info)
                   ELSE StoreLatest(slotted, key, info)
         last == rel_idx = Len(response.releases)
     IN  IF IsDraft(release)
           THEN /\ rel_idx' = rel_idx + 1
                /\ pc' = IF last THEN "after_for" ELSE "for"
                /\ UNCHANGED <<artifacts_releases, exit_status, exception>>
         ELSE IF RaisesKeyError(slotted, key, fetch_history)
           THEN /\ Crash("KeyError")
                /\ artifacts_releases' = slotted
                /\ UNCHANGED rel_idx
         ELSE /\ artifacts_releases' = stored
              /\ rel_idx' = rel_idx + 1
              /\ pc' = IF last \/ (~fetch_history /\ AllFilled(stored))
                         THEN "after_for" ELSE "for"
              /\ UNCHANGED <<exit_status, exception>>
  /\ processed' = Append(processed, response.releases[rel_idx])
  /\ UNCHANGED <<config_vars, repositories, repo_idx, owner, repo_name, page, response,
                 fetched, served, ret_path, result, write_vars, fs_vars>>

\* a page end that does not look at the length of the page
after_page_any_length ==
  /\ pc = "after_for"
  /\ IF response.remaining # NoHeader /\ response.remaining < 1
       THEN /\ Return("normal", artifacts_releases)
            /\ UNCHANGED page
     ELSE /\ page' = page + 1
          /\ pc' = "request"
          /\ UNCHANGED <<ret_path, result>>
  /\ UNCHANGED <<exit_status, exception, config_vars, repositories, repo_idx, owner,
                 repo_name, artifacts_releases, response, rel_idx, fetched, processed,
                 served, write_vars, fs_vars>>

\* the end of one pass of "while True": last page, rate limit, or next page
after_page ==
  /\ pc = "after_for"
  /\ IF Len(response.releases) < per_page
       THEN /\ Return("normal", artifacts_releases)
            /\ UNCHANGED page
     ELSE IF response.remaining # NoHeader /\ response.remaining < 1
       THEN /\ Return("normal", artifacts_releases)
            /\ UNCHANGED page
     ELSE /\ page' = page + 1
          /\ pc' = "request"
          /\ UNCHANGED <<ret_path, result>>
  /\ UNCHANGED <<exit_status, exception, config_vars, repositories, repo_idx, owner,
                 repo_name, artifacts_releases, response, rel_idx, fetched, processed,
                 served, write_vars, fs_vars>>

(* ---------------------------------------------------------------------- *)
(* process_repository, second part: the writer loops                       *)
(* ---------------------------------------------------------------------- *)

\* the releases process_repository passes to the writer for one value:
\* history mode iterates the value, latest-only mode takes the truthy slots
Items(v, history) == IF history THEN v ELSE SelectSeq(v, Truthy)

FilePaths(fs) == {f.path : f \in fs}

\* base_path.mkdir(parents=True, exist_ok=True) raises
MkdirFails(base, fs, io) == io = "mkdir_fails" \/ Parents(base) \cap FilePaths(fs) # {}

\* a test that looks for a directory only
ExistsAsDirectory(path, fs, ds) == path \in ds

\* filepath.exists()
Exists(path, fs, ds) == path \in FilePaths(fs) \/ path \in ds

\* filepath.write_text(...) raises
WriteFails(path, ds, io) ==
  io = "write_fails" \/ SubSeq(path, 1, Len(path) - 1) \notin ds

\* a writer without the test for an existing file
save_release_notes_overwrite(own, repo, artifact, release, fs, ds, io) ==
  LET base == BasePath(own, repo, artifact)
      path == FilePath(own, repo, artifact, release.tag)
      made == ds \cup Parents(base)
  IN  IF MkdirFails(base, fs, io) \/ WriteFails(path, made, io)
        THEN [ret |-> FALSE, files |-> fs, dirs |-> ds]
      ELSE [ret |-> TRUE,
            files |-> {f \in fs : f.path # path}
                        \cup {[path |-> path,
                                content |-> Content(own, repo, artifact, release)]},
            dirs |-> made]

\* save_release_notes for a ReleaseInfo: the value returned and the output
\* tree afterwards
save_release_notes(own, repo, artifact, release, fs, ds, io) ==
  LET base == BasePath(own, repo, artifact)
      path == FilePath(own, repo, artifact, release.tag)
      made == ds \cup Parents(base)
  IN  IF MkdirFails(base, fs, io)
        THEN [ret |-> FALSE, files |-> fs, dirs |-> ds]
      ELSE IF Exists(path, fs, made)
        THEN [ret |-> FALSE, files |-> fs, dirs |-> made]
      ELSE IF WriteFails(path, made, io)
        THEN [ret |-> FALSE, files |-> fs, dirs |-> made]
      ELSE [ret |-> TRUE,
            files |-> {f \in fs : f.path # path}
                        \cup {[path |-> path,
                                content |-> Content(own, repo, artifact, release)]},
            dirs |-> made]

IoOutcomes == {"ok", "mkdir_fails", "write_fails"}

\* get_latest_releases has returned: summary = {} and the loops begin
start_items ==
  /\ pc = "returned"
  /\ pc' = "items"
  /\ summary' = << >>
  /\ art_idx' = 1
  /\ item_idx' = 1
  /\ written' = 0
  /\ skipped' = 0
  /\ artifacts_releases' = << >>
  /\ page' = 1
  /\ response' = NoResponse
  /\ rel_idx' = 1
  /\ fetched' = << >>
  /\ processed' = << >>
  /\ UNCHANGED <<exit_status, exception, config_vars, repositories, repo_idx, owner,
                 repo_name, served, ret_path, result, fs_vars>>

\* a call of a writer that lets a filesystem error through
save_release_uncaught ==
  /\ pc = "items"
  /\ art_idx <= Len(result)
  /\ item_idx <= Len(Items(result[art_idx].v, fetch_history))
  /\ LET artifact == result[art_idx].k
         release == Items(result[art_idx].v, fetch_history)[item_idx]
         base == BasePath(owner, repo_name, artifact)
     IN  \E io \in IoOutcomes :
           IF release = None
             THEN /\ Crash("AttributeError")
                  /\ UNCHANGED <<files, dirs, item_idx, written, skipped>>
           ELSE IF \/ MkdirFails(base, files, io)
                   \/ /\ ~Exists(FilePath(owner, repo_name, artifact, release.tag),
                                  files, dirs \cup Parents(base))
                      /\ WriteFails(FilePath(owner, repo_name, artifact, release.tag),
                                    dirs \cup Parents(base), io)
             THEN /\ Crash("OSError")
                  /\ UNCHANGED <<files, dirs, item_idx, written, skipped>>
             ELSE LET out == save_release_notes(owner, repo_name, artifact, release,
                                                files, dirs, io)
                  IN  /\ files' = out.files
                      /\ dirs' = out.dirs
                      /\ written' = IF out.ret THEN written + 1 ELSE written
                      /\ skipped' = IF out.ret THEN skipped ELSE skipped + 1
                      /\ item_idx' = item_idx + 1
                      /\ UNCHANGED <<pc, exit_status, exception>>
  /\ UNCHANGED <<config_vars, repositories, repo_idx, owner, repo_name, fetch_vars,
                 served, ret_path, result, art_idx, summary>>

\* one call of save_release_notes from the loops of process_repository
save_release ==
  /\ pc = "items"
  /\ art_idx <= Len(result)
  /\ item_idx <= Len(Items(result[art_idx].v, fetch_history))
  /\ LET artifact == result[art_idx].k
         release == Items(result[art_idx].v, fetch_history)[item_idx]
     IN  \E io \in IoOutcomes :
           IF release = None
             THEN \* release.tag raises AttributeError, and so does the handler
                  /\ Crash("AttributeError")
                  /\ dirs' = IF MkdirFails(BasePath(owner, repo_name, artifact), files, io)
                               THEN dirs
                               ELSE dirs \cup Parents(BasePath(owner, repo_name, artifact))
                  /\ UNCHANGED <<files, item_idx, written, skipped>>
             ELSE LET out == save_release_notes(owner, repo_name, artifact, release,
                                                files, dirs, io)
                  IN  /\ files' = out.files
                      /\ dirs' = out.dirs
                      /\ written' = IF out.ret THEN written + 1 ELSE written
                      /\ skipped' = IF out.ret THEN skipped ELSE skipped + 1
                      /\ item_idx' = item_idx + 1
                      /\ UNCHANGED <<pc, exit_status, exception>>
  /\ UNCHANGED <<config_vars, repositories, repo_idx, owner, repo_name, fetch_vars,
                 served, ret_path, result, art_idx, summary>>

\* the releases of one artifact are done: summary[artifact] = {...}
end_artifact ==
  /\ pc = "items"
  /\ art_idx <= Len(result)
  /\ item_idx > Len(Items(result[art_idx].v, fetch_history))
  /\ summary' = Put(summary, result[art_idx].k, [written |-> written, skipped |-> skipped])
  /\ art_idx' = art_idx + 1
  /\ item_idx' = 1
  /\ written' = 0
  /\ skipped' = 0
  /\ pc' = IF art_idx = Len(result) THEN "summary" ELSE "items"
  /\ UNCHANGED <<exit_status, exception, config_vars, repositories, repo_idx, owner,
                 repo_name, fetch_vars, served, ret_path, result, fs_vars>>

\* a return to main that leaves the loop of main where it was
print_summary_same_repository ==
  /\ pc = "summary"
  /\ pc' = "loop"
  /\ owner' = EmptyStr
  /\ repo_name' = EmptyStr
  /\ ret_path' = "none"
  /\ result' = << >>
  /\ summary' = << >>
  /\ art_idx' = 1
  /\ UNCHANGED <<exit_status, exception, config_vars, repositories, repo_idx, fetch_vars,
                 served, item_idx, written, skipped, fs_vars>>

\* the summary is printed and process_repository returns to main
print_summary ==
  /\ pc = "summary"
  /\ pc' = "loop"
  /\ repo_idx' = repo_idx + 1
  /\ owner' = EmptyStr
  /\ repo_name' = EmptyStr
  /\ ret_path' = "none"
  /\ result' = << >>
  /\ summary' = << >>
  /\ art_idx' = 1
  /\ UNCHANGED <<exit_status, exception, config_vars, repositories, fetch_vars, served,
                 item_idx, written, skipped, fs_vars>>

\* process_repository is called again for the same repository (the list names
\* it twice) and the API answers as before: get_latest_releases returns the
\* same result, and the loops over it begin again
process_repository_again ==
  /\ pc = "summary"
  /\ repo_idx < Len(repositories)
  /\ ~InvalidRepository(repositories[repo_idx + 1])
  /\ Split(Strip(repositories[repo_idx + 1])) = <<owner, repo_name>>
  /\ repo_idx' = repo_idx + 1
  /\ pc' = "returned"
  /\ UNCHANGED <<exit_status, exception, config_vars, repositories, owner, repo_name,
                 fetch_vars, served, ret_path, result, write_vars, fs_vars>>

Next ==
  \/ get_repositories
  \/ main_done
  \/ process_repository
  \/ request_page
  \/ process_release
  \/ after_page
  \/ start_items
  \/ save_release
  \/ end_artifact
  \/ print_summary

Spec == Init /\ [][Next]_vars

(* ---------------------------------------------------------------------- *)
(* The writer on one page of releases and an output tree that is not empty *)
(* ---------------------------------------------------------------------- *)

\* longest page of the one-page runs
MaxPage == 2

W1 == Rec(EmptyStr, <<"v","1">>, <<"x">>, FALSE, FALSE)
W2 == Rec(EmptyStr, <<"a","/","v","3">>, EmptyStr, FALSE, FALSE)
W3 == Rec(EmptyStr, <<"a","/","a","/","v","8">>, EmptyStr, FALSE, TRUE)
W4 == Rec(<<"a">>, <<"b","/","v","7">>, EmptyStr, FALSE, FALSE)
W5 == Rec(EmptyStr, <<"v","2">>, EmptyStr, FALSE, TRUE)

\* the release records of the one-page runs of the writer
WriterCatalog == {W1, W2, W3, W4, W5}

\* the pages of 1..n records of a catalog
RECURSIVE PagesOf(_, _)
PagesOf(catalog, n) ==
  IF n = 0 THEN {}
  ELSE PagesOf(catalog, n - 1)
         \cup {<<r>> : r \in catalog}
         \cup {Append(p, r) : p \in {q \in PagesOf(catalog, n - 1) : Len(q) = n - 1},
                               r \in catalog}

\* the environments of these runs: GITHUB_REPOS="o/r,o/r", ARTIFACT_HISTORY="1"
\* or unset, MONOREPO_ARTIFACTS_O_R="a" or unset
WriterEnvirons ==
  {<<Bind(ENV_VAR_NAME, <<"o","/","r",",","o","/","r">>)>> \o history \o artifacts :
     history \in {<< >>, <<Bind(ARTIFACT_HISTORY, <<"1">>)>>},
     artifacts \in {<< >>, <<Bind(MonorepoEnvName(RepoOR), <<"a">>)>>}}

\* content of a file that was in the output tree before the run
OldContent == <<"o","l","d">>

\* the paths save_release_notes computes for the records of a page of o/r
PagePaths(p) ==
  {FilePath(<<"o">>, <<"r">>, MatchedArtifact(get_monorepo_artifacts(RepoOR), p[n]),
            p[n].tag_name) : n \in DOMAIN p}

\* the directories above a path
Above(path) == Parents(SubSeq(path, 1, Len(path) - 1))

\* output trees a run can find: nothing, the directories of the page's paths,
\* and an older file at every path or at the path of the first record
OutputTrees(p) ==
  LET all == UNION {Above(path) : path \in PagePaths(p)}
  IN  {[files |-> {}, dirs |-> {}],
       [files |-> {}, dirs |-> all],
       [files |-> {[path |-> path, content |-> OldContent] : path \in PagePaths(p)},
        dirs |-> all],
       [files |-> {[path |-> path, content |-> OldContent] : path \in PagePaths(<<p[1]>>)},
        dirs |-> UNION {Above(path) : path \in PagePaths(<<p[1]>>)}]}

\* process_repository("o/r") has its first page, p, and p is the last page
FirstPageReceived(p) ==
  /\ pc = "for"
  /\ exit_status = 0
  /\ exception = ""
  /\ argv = << >>
  /\ config_files = <<NoConfigFile, NoConfigFile>>
  /\ artifacts_root = get_artifacts_path
  /\ debug = get_debug_setting
  /\ fetch_history = get_history_setting
  /\ repositories = RepositoriesSpecified
  /\ repo_idx = 1
  /\ owner = <<"o">>
  /\ repo_name = <<"r">>
  /\ artifacts_releases = InitReleases(get_monorepo_artifacts(RepoOR), fetch_history)
  /\ page = 1
  /\ response = [status |-> 200, remaining |-> NoHeader, releases |-> p]
  /\ rel_idx = 1
  /\ fetched = p
  /\ processed = << >>
  /\ served = Len(p)
  /\ ret_path = "none"
  /\ result = << >>
  /\ art_idx = 1
  /\ item_idx = 1
  /\ written = 0
  /\ skipped = 0
  /\ summary = << >>

WriterInit ==
  /\ environ \in WriterEnvirons
  /\ \E p \in PagesOf(WriterCatalog, MaxPage) :
       /\ FirstPageReceived(p)
       /\ \E tree \in OutputTrees(p) :
            /\ files = tree.files
            /\ dirs = tree.dirs

WriterNext ==
  \/ process_release
  \/ after_page
  \/ start_items
  \/ save_release
  \/ end_artifact
  \/ print_summary
  \/ process_repository_again
  \/ main_done

WriterSpec == WriterInit /\ [][WriterNext]_vars

(* ---------------------------------------------------------------------- *)
(* The classifier on one page of releases and allow-lists of several keys  *)
(* ---------------------------------------------------------------------- *)

K1 == Rec(<<"b">>, <<"a">>, EmptyStr, FALSE, FALSE)
K2 == Rec(EmptyStr, <<"B","/","v","1">>, <<"a">>, FALSE, FALSE)
K3 == Rec(EmptyStr, <<"B","/","v","2">>, EmptyStr, FALSE, FALSE)
K4 == Rec(EmptyStr, <<"v","1">>, EmptyStr, FALSE, TRUE)
K5 == Rec(<<"A">>, <<"v","2">>, EmptyStr, FALSE, FALSE)
K6 == Rec(EmptyStr, <<"B","/","v","3">>, EmptyStr, FALSE, TRUE)

\* the release records of the one-page runs of the classifier
ClassifyCatalog == {K1, K2, K3, K4, K5, K6}

\* the environments of these runs: GITHUB_REPOS="o/r", ARTIFACT_HISTORY="yes"
\* or unset, MONOREPO_ARTIFACTS_O_R="a,B", "B,a", "a" or unset
ClassifyEnvirons ==
  {<<Bind(ENV_VAR_NAME, RepoOR)>> \o history \o artifacts :
     history \in {<< >>, <<Bind(ARTIFACT_HISTORY, <<"y","e","s">>)>>},
     artifacts \in {<< >>,
                    <<Bind(MonorepoEnvName(RepoOR), <<"a">>)>>,
                    <<Bind(MonorepoEnvName(RepoOR), <<"a",",","B">>)>>,
                    <<Bind(MonorepoEnvName(RepoOR), <<"B",",","a">>)>>}}

ClassifyInit ==
  /\ environ \in ClassifyEnvirons
  /\ \E p \in PagesOf(ClassifyCatalog, MaxPage) : FirstPageReceived(p)
  /\ files = {}
  /\ dirs = {}

ClassifyNext ==
  \/ process_release
  \/ after_page

ClassifySpec == ClassifyInit /\ [][ClassifyNext]_vars

(* ---------------------------------------------------------------------- *)
(* The resolvers on environments, command lines and configuration files    *)
(* ---------------------------------------------------------------------- *)

RepoPQR == <<"p","-","q","/","r">>

\* a configuration file: missing, without the key, or with a value for it
FileCases(key, values) ==
  {NoConfigFile, ConfigFile(TRUE, << >>)}
    \cup {ConfigFile(TRUE, <<Bind(key, v)>>) : v \in values}

\* the sources of one setting: the variable unset or set, the option absent
\* or given, and the two configuration files
SourceCases(name, env_values, option, arg_values, key, cfg_values, conf_values) ==
  {[environ |-> e, argv |-> a, config_files |-> <<cfg, conf>>] :
     e \in {<< >>} \cup {<<Bind(name, v)>> : v \in env_values},
     a \in {<< >>} \cup {<<Bind(option, v)>> : v \in arg_values},
     cfg \in FileCases(key, cfg_values),
     conf \in FileCases(key, conf_values)}

\* the same sources in a run whose GITHUB_REPOS names one repository
WithRepository(repo, cases) ==
  {[c EXCEPT !.environ = <<Bind(ENV_VAR_NAME, repo)>> \o c.environ] : c \in cases}

\* the sources of the runs: one setting at a time has its sources varied
ConfigCases ==
  WithRepository(RepoOR,
    SourceCases(ARTIFACTS_PATH, {EmptyStr, <<"e">>}, OptArtifactsPath, {<<"c">>},
                <<"artifacts", "path">>, {<<"f">>}, {<<"g">>}))
  \cup WithRepository(RepoOR,
    SourceCases(DEBUG_ENV_VAR, {EmptyStr, <<"O","n">>, <<"n","o">>}, OptDebug, {EmptyStr},
                <<"settings", "debug">>, {<<"O","N">>, <<"0">>}, {<<"1">>}))
  \cup WithRepository(RepoOR,
    SourceCases(ARTIFACT_HISTORY, {EmptyStr, <<"O","n">>, <<"n","o">>}, OptHistory,
                {EmptyStr}, <<"artifacts", "history">>, {<<"O","N">>, <<"0">>}, {<<"1">>}))
  \cup SourceCases(ENV_VAR_NAME, {EmptyStr, RepoOR}, OptRepos, {RepoPQR},
                   <<"repositories", "repos">>, {RepoOR \o <<",">> \o RepoPQR}, {RepoBad})
  \cup UNION {WithRepository(repo,
                SourceCases(MonorepoEnvName(repo), {EmptyStr, <<"a",",","b">>},
                            MonorepoOption(repo), {<<"c">>},
                            <<"monorepos", lower(repo)>>, {<<"f">>}, {<<"g">>})) :
              repo \in {RepoOR, RepoPQR}}

ConfigInit ==
  /\ \E c \in ConfigCases :
       /\ environ = c.environ
       /\ argv = c.argv
       /\ config_files = c.config_files
  /\ pc = "main"
  /\ exit_status = 0
  /\ exception = ""
  /\ artifacts_root = get_artifacts_path
  /\ debug = get_debug_setting
  /\ fetch_history = get_history_setting
  /\ repositories = NoRepositories
  /\ repo_idx = 1
  /\ owner = EmptyStr
  /\ repo_name = EmptyStr
  /\ artifacts_releases = << >>
  /\ page = 1
  /\ response = NoResponse
  /\ rel_idx = 1
  /\ fetched = << >>
  /\ processed = << >>
  /\ served = 0
  /\ ret_path = "none"
  /\ result = << >>
  /\ art_idx = 1
  /\ item_idx = 1
  /\ written = 0
  /\ skipped = 0
  /\ summary = << >>
  /\ files = {}
  /\ dirs = {}

\* a run up to the first request of a page
ConfigNext ==
  \/ get_repositories
  \/ process_repository
  \/ main_done

ConfigSpec == ConfigInit /\ [][ConfigNext]_vars

(* ---------------------------------------------------------------------- *)
(* A run over a list with malformed repository identifiers                 *)
(* ---------------------------------------------------------------------- *)

\* the environments of these runs: GITHUB_REPOS=" o/r/x,o/r,bad",
\* ARTIFACT_HISTORY="true" or unset, MONOREPO_ARTIFACTS_O_R="a" or unset
SkipEnvirons ==
  {<<Bind(ENV_VAR_NAME, <<" ","o","/","r","/","x",",">> \o RepoOR \o <<",">> \o RepoBad)>>
     \o history \o artifacts :
     history \in {<< >>, <<Bind(ARTIFACT_HISTORY, <<"t","r","u","e">>)>>},
     artifacts \in {<< >>, <<Bind(MonorepoEnvName(RepoOR), <<"a">>)>>}}

SkipInit ==
  /\ environ \in SkipEnvirons
  /\ pc = "main"
  /\ exit_status = 0
  /\ exception = ""
  /\ argv = << >>
  /\ config_files = <<NoConfigFile, NoConfigFile>>
  /\ artifacts_root = get_artifacts_path
  /\ debug = get_debug_setting
  /\ fetch_history = get_history_setting
  /\ repositories = NoRepositories
  /\ repo_idx = 1
  /\ owner = EmptyStr
  /\ repo_name = EmptyStr
  /\ artifacts_releases = << >>
  /\ page = 1
  /\ response = NoResponse
  /\ rel_idx = 1
  /\ fetched = << >>
  /\ processed = << >>
  /\ served = 0
  /\ ret_path = "none"
  /\ result = << >>
  /\ art_idx = 1
  /\ item_idx = 1
  /\ written = 0
  /\ skipped = 0
  /\ summary = << >>
  /\ files = {}
  /\ dirs = {}

SkipSpec == SkipInit /\ [][Next]_vars

(* ---------------------------------------------------------------------- *)
(* Properties                                                              *)
(* ---------------------------------------------------------------------- *)

InFetch == pc \in {"request", "for", "after_for"}

Range(f) == {f[n] : n \in DOMAIN f}

\* the non-draft records of a sequence that classify to a key
ClassifiedTo(records, key) ==
  SelectSeq(records, LAMBDA r : ~r.draft /\ MatchedArtifact(configured_artifacts, r) = key)

\* C1: in latest-only mode no page is requested once every key of the
\* accumulator has both its stable and its prerelease slot filled
C1_NoRequestOnceAllFilled ==
  (pc = "request" /\ ~fetch_history) => ~AllFilled(artifacts_releases)

\* the first record of a category among the fetched records of a key
FirstOfCategory(key, pre) ==
  LET matching == SelectSeq(ClassifiedTo(fetched, key), LAMBDA r : r.prerelease = pre)
  IN  IF matching = << >> THEN None ELSE MakeReleaseInfo(matching[1])

\* C2: in latest-only mode every filled slot of the result holds the first
\* non-draft record, in arrival order over all fetched pages, of its key and
\* category
C2_FilledSlotIsFirstInArrivalOrder ==
  (pc = "returned" /\ ~fetch_history) =>
    \A n \in DOMAIN result :
      /\ Truthy(result[n].v[1]) => result[n].v[1] = FirstOfCategory(result[n].k, FALSE)
      /\ Truthy(result[n].v[2]) => result[n].v[2] = FirstOfCategory(result[n].k, TRUE)

\* the keys the tag-derived fallback produced for the processed records
DerivedKeys ==
  {Split(r.tag_name)[1] :
     r \in {q \in Range(processed) : ~q.draft /\ TagDerived(configured_artifacts, q)}}

\* C3: the keys of the result are exactly the configured allow-list united
\* with the tag-derived keys of the processed records (stated for the fetches
\* that hand back the accumulator: every page answered, or the rate limit hit)
C3_ResultKeysAreConfiguredAndDerived ==
  (pc = "returned" /\ ret_path \in {"normal", "rate_limit"}) =>
    Keys(result) = Range(configured_artifacts) \cup DerivedKeys

\* no file has been written for the running repository
NoFileWritten ==
  /\ written = 0
  /\ \A n \in DOMAIN summary : summary[n].v.written = 0

\* C4: once the repository list is resolved, no repository ends the run: no
\* exception leaves process_repository, the exit status stays 0 and the run
\* ends only after the last repository of the list
C4_NoRepositoryAbortsTheBatch ==
  repositories # NoRepositories =>
    /\ exception = ""
    /\ exit_status = 0
    /\ pc = "exit" => repo_idx > Len(repositories)

\* C5: after a transport failure the fetch hands back the neutral result, no
\* file is written for the repository and process_repository completes
C5_TransportFailureIsContained ==
  ret_path = "request_exception" =>
    /\ result = NeutralResult
    /\ pc \in {"returned", "items", "summary"}
    /\ exception = ""
    /\ NoFileWritten

\* C6: after an empty first page the fetch hands back the neutral result, no
\* file is written for the repository and process_repository completes
C6_EmptyFirstPageIsContained ==
  ret_path = "no_releases" =>
    /\ result = NeutralResult
    /\ pc \in {"returned", "items", "summary"}
    /\ exception = ""
    /\ NoFileWritten

\* the ReleaseInfo of the non-draft records of a sequence that classify to a key
InfosOf(records, key) ==
  LET sel == ClassifiedTo(records, key)
  IN  [n \in DOMAIN sel |-> MakeReleaseInfo(sel[n])]

\* the keys the non-draft records of a sequence classify to
KeysOf(records) ==
  {MatchedArtifact(configured_artifacts, r) : r \in {q \in Range(records) : ~q.draft}}

\* C8: in history mode the fetch stores every non-draft record under its
\* key, the empty key included, and the sequence of each key of the result is
\* exactly the non-draft records classified to it, in arrival order
C8_HistoryKeepsEveryRecordInOrder ==
  fetch_history =>
    /\ exception # "KeyError"
    /\ (pc = "returned" /\ ret_path = "normal") =>
         \A key \in Keys(result) \cup KeysOf(fetched) :
           Has(result, key) /\ Get(result, key) = InfosOf(fetched, key)


\* a result holds the ReleaseInfo of a record under its key
Holds(d, release) ==
  LET key == MatchedArtifact(configured_artifacts, release)
      info == MakeReleaseInfo(release)
  IN  /\ Has(d, key)
      /\ IF fetch_history THEN info \in Range(Get(d, key))
         ELSE Truthy(Get(d, key)[IF release.prerelease THEN 2 ELSE 1])

\* every release a result holds for a key has been passed to the writer
AllPassedToWriter ==
  \A n \in DOMAIN result :
    /\ Has(summary, result[n].k)
    /\ Get(summary, result[n].k).written + Get(summary, result[n].k).skipped
         = Len(Items(result[n].v, fetch_history))

\* C7: when a page answers 403 with a remaining quota of 0, the fetch hands
\* back the accumulator as it stands, with every record stored from the
\* earlier pages; its releases are passed to the writer and nothing ends the run
C7_RateLimitReturnsTheAccumulator ==
  ret_path = "rate_limit" =>
    /\ exception = ""
    /\ pc \in {"returned", "items", "summary"}
    /\ pc = "returned" =>
         /\ RateLimited(response)
         /\ result = artifacts_releases
         /\ \A r \in Range(processed) : ~r.draft => Holds(result, r)
    /\ pc = "summary" => AllPassedToWriter

C7_Witness ==
  /\ pc = "summary"
  /\ ret_path = "rate_limit"
  /\ \E n \in DOMAIN summary : summary[n].v.written >= 1

\* the tags of the draft records (every record of the catalog has its own tag)
DraftTags == {r.tag_name : r \in {q \in Catalog : q.draft}}

\* the ReleaseInfo a dictionary of the fetcher holds
HeldInfos(d) == UNION {Range(d[n].v) : n \in DOMAIN d} \ {None}

NoDraftHeld ==
  \A info \in HeldInfos(artifacts_releases) \cup HeldInfos(result) :
    info.tag \notin DraftTags

\* a file names a draft record's tag in its document or in its file name
NamesDraft(f) ==
  \E tag \in DraftTags : Contains(tag, f.content) \/ Contains(tag, f.path[Len(f.path)])

\* every file a step adds to the output tree (empty at the start) names no draft
NoDraftWritten == \A f \in files' \ files : ~NamesDraft(f)

DraftStepChangesNothing ==
  (pc = "for" /\ response.releases[rel_idx].draft) =>
    /\ artifacts_releases' = artifacts_releases
    /\ pc' = IF rel_idx = Len(response.releases) THEN "after_for" ELSE "for"

\* C9: no draft record is held in the accumulator or the result, no file is
\* written for one, and the step that takes up a draft record leaves the
\* accumulator, and so the stop condition, as it was and goes on in the page
C9_DraftsLeaveNoTrace ==
  []NoDraftHeld /\ [][NoDraftWritten /\ DraftStepChangesNothing]_vars

C9_Witness ==
  /\ pc = "returned"
  /\ \E r \in Range(processed) : r.draft
  /\ HeldInfos(result) # {}
  /\ files # {}

\* C10: in latest-only mode a filled slot of the accumulator holds the same
\* ReleaseInfo after every step of the fetch
C10_FilledSlotIsKept ==
  [][(~fetch_history /\ InFetch) =>
       \A n \in DOMAIN artifacts_releases : \A c \in {1, 2} :
         Truthy(artifacts_releases[n].v[c]) =>
           /\ n \in DOMAIN artifacts_releases'
           /\ artifacts_releases'[n].k = artifacts_releases[n].k
           /\ artifacts_releases'[n].v[c] = artifacts_releases[n].v[c]]_vars

C10_Witness ==
  /\ ~fetch_history
  /\ InFetch
  /\ \E i \in DOMAIN processed : \E j \in DOMAIN processed :
       /\ i < j
       /\ ~processed[i].draft /\ ~processed[j].draft
       /\ processed[i].prerelease = processed[j].prerelease
       /\ processed[i].tag_name # processed[j].tag_name
       /\ MatchedArtifact(configured_artifacts, processed[i])
            = MatchedArtifact(configured_artifacts, processed[j])
       /\ Holds(artifacts_releases, processed[i])

(* ---------------------------------------------------------------------- *)
(* The writer                                                              *)
(* ---------------------------------------------------------------------- *)

\* process_repository is about to call save_release_notes
AtSave ==
  /\ pc = "items"
  /\ art_idx <= Len(result)
  /\ item_idx <= Len(Items(result[art_idx].v, fetch_history))

\* the arguments of that call
CurArtifact == result[art_idx].k
CurRelease == Items(result[art_idx].v, fetch_history)[item_idx]
CurPath == FilePath(owner, repo_name, CurArtifact, CurRelease.tag)

\* the releases a result holds, each with its key
ItemsOfResult ==
  UNION {{[key |-> result[n].k, release |-> Items(result[n].v, fetch_history)[i]] :
            i \in DOMAIN Items(result[n].v, fetch_history)} : n \in DOMAIN result}

\* C11: when a file exists at the path save_release_notes computes, the call
\* counts the release as skipped and leaves every file of the output tree as
\* it is, whatever the existing file holds
C11_ExistingFileIsKept ==
  [][(AtSave /\ CurRelease # None /\ CurPath \in FilePaths(files)) =>
       /\ files' = files
       /\ written' = written
       /\ skipped' = skipped + 1]_vars

\* a release was skipped whose file holds something else than its document
C11_Witness ==
  /\ pc = "items"
  /\ item_idx > 1
  /\ skipped >= 1
  /\ LET release == Items(result[art_idx].v, fetch_history)[item_idx - 1]
         path == FilePath(owner, repo_name, CurArtifact, release.tag)
     IN  /\ [path |-> path, content |-> OldContent] \in files
         /\ Content(owner, repo_name, CurArtifact, release) # OldContent

\* process_repository runs for the second time on the repository
SecondRun == repo_idx = 2 /\ pc \in {"items", "summary"}

\* the summary reports N unchanged for the artifacts it has an entry for
ReportsAllUnchanged ==
  \A n \in DOMAIN summary :
    /\ summary[n].v.written = 0
    /\ summary[n].v.skipped = Len(Items(Get(result, summary[n].k), fetch_history))

Saved ==
  \A item \in ItemsOfResult :
    item.release # None =>
      FilePath(owner, repo_name, item.key, item.release.tag) \in FilePaths(files)

\* the counters of the loops add up to the releases passed to the writer
CountsAddUp ==
  /\ AtSave => written + skipped = item_idx - 1
  /\ pc \in {"items", "summary"} =>
       \A n \in DOMAIN summary :
         summary[n].v.written + summary[n].v.skipped
           = Len(Items(Get(result, summary[n].k), fetch_history))

\* a step of process_repository on a saved result: no file changes, a release
\* is counted as unchanged, and the entry of an artifact is what was counted
SavedStep ==
  (pc \in {"returned", "items", "summary"} /\ Saved) =>
    /\ files' = files
    /\ (AtSave /\ CurRelease # None) => (written' = written /\ skipped' = skipped + 1)
    /\ (pc = "items" /\ ~AtSave) =>
         summary' = Put(summary, CurArtifact, [written |-> written, skipped |-> skipped])
    /\ pc = "returned" => (written' = 0 /\ skipped' = 0 /\ summary' = << >>)

RECURSIVE JoinSlash(_)
JoinSlash(parts) ==
  IF Len(parts) = 1 THEN parts[1]
  ELSE parts[1] \o <<"/">> \o JoinSlash(Tail(parts))

\* the stem as the claim describes it: the rest of the tag after one "key/"
ClaimedStem(key, tag) ==
  IF key # EmptyStr /\ \E rest \in {SubSeq(tag, n, Len(tag)) : n \in 1..(Len(tag) + 1)} :
                          tag = key \o <<"/">> \o rest
    THEN CHOOSE rest \in {SubSeq(tag, n, Len(tag)) : n \in 1..(Len(tag) + 1)} :
           tag = key \o <<"/">> \o rest
    ELSE tag

\* the directory as the claim describes it
ClaimedDir(key) ==
  <<artifacts_root, owner, repo_name>> \o (IF key # EmptyStr THEN <<key>> ELSE << >>)

\* a path lies under the claimed directory and is named by the claimed stem
PlacedAsClaimed(path, key, tag) ==
  /\ Len(path) > Len(ClaimedDir(key))
  /\ SubSeq(path, 1, Len(ClaimedDir(key))) = ClaimedDir(key)
  /\ JoinSlash(SubSeq(path, Len(ClaimedDir(key)) + 1, Len(path)))
       = ClaimedStem(key, tag) \o <<".","m","d">>

\* C13: the path computed for a release is the directory of its key followed
\* by the tag with one leading "key/" removed, and every document the run has
\* written lies at the path computed for its release
C13_StemAndPlace ==
  pc \in {"items", "summary"} =>
    /\ \A item \in ItemsOfResult :
         item.release # None =>
           PlacedAsClaimed(FilePath(owner, repo_name, item.key, item.release.tag),
                           item.key, item.release.tag)
    /\ \A f \in files :
         f.content # OldContent =>
           \E item \in ItemsOfResult :
             /\ item.release # None
             /\ f.content = Content(owner, repo_name, item.key, item.release)
             /\ PlacedAsClaimed(f.path, item.key, item.release.tag)

\* the document of a tag that begins with "a/a/" was written under key "a"
C13_Witness ==
  /\ pc = "summary"
  /\ \E f \in files :
       /\ f.content # OldContent
       /\ f.path = <<artifacts_root, <<"o">>, <<"r">>, <<"a">>, <<"a">>,
                     <<"v","8",".","m","d">>>>

\* C14: when nothing exists at the computed path and the filesystem accepts
\* the directory creation and the write, save_release_notes makes every
\* directory above the path, writes the document and returns written
C14_WritesUnderEveryKeyAndTag ==
  (/\ AtSave
   /\ CurRelease # None
   /\ CurPath \notin FilePaths(files) \cup dirs
   /\ ~MkdirFails(BasePath(owner, repo_name, CurArtifact), files, "ok")) =>
    LET out == save_release_notes(owner, repo_name, CurArtifact, CurRelease,
                                  files, dirs, "ok")
    IN  /\ out.ret
        /\ [path |-> CurPath,
            content |-> Content(owner, repo_name, CurArtifact, CurRelease)] \in out.files
        /\ Above(CurPath) \subseteq out.dirs

(* ---------------------------------------------------------------------- *)
(* The classifier                                                          *)
(* ---------------------------------------------------------------------- *)

\* the for loop has taken up a record that is no draft
Classified ==
  /\ pc \in {"for", "after_for"}
  /\ processed # << >>
  /\ ~processed[Len(processed)].draft

LastProcessed == processed[Len(processed)]

\* the accumulator holds the record last taken up under a key
StoredUnder(key) ==
  LET info == MakeReleaseInfo(LastProcessed)
  IN  /\ Has(artifacts_releases, key)
      /\ IF fetch_history
           THEN /\ Get(artifacts_releases, key) # << >>
                /\ Get(artifacts_releases, key)[Len(Get(artifacts_releases, key))] = info
           ELSE /\ Truthy(Get(artifacts_releases, key)[IF info.is_prerelease THEN 2 ELSE 1])
                /\ Len(processed) = 1 =>
                     Get(artifacts_releases, key)[IF info.is_prerelease THEN 2 ELSE 1] = info

\* the configured keys whose lowercase form is in a lowercased field
KeysIn(field) ==
  SelectSeq(configured_artifacts,
            LAMBDA k : k # EmptyStr /\ Contains(lower(k), lower(field)))

\* a configured key is a substring of the name, the tag or the body
SomeKeyIn(r) ==
  KeysIn(r.name) # << >> \/ KeysIn(r.tag_name) # << >> \/ KeysIn(r.body) # << >>

\* the key as the claim describes it: the field decides first, the list second
ByFieldThenList(r) ==
  IF KeysIn(r.name) # << >> THEN KeysIn(r.name)[1]
  ELSE IF KeysIn(r.tag_name) # << >> THEN KeysIn(r.tag_name)[1]
  ELSE KeysIn(r.body)[1]

\* C15 as stated: a key that matches the name is chosen over one that matches
\* only the tag, and that over one that matches only the body; the allow-list
\* order decides among keys matching in the same field
C15_FieldThenListOrder ==
  (Classified /\ SomeKeyIn(LastProcessed)) => StoredUnder(ByFieldThenList(LastProcessed))

\* the first key of the allow-list that is in any of the three fields
ByListOrder(r) ==
  LET matching == {n \in DOMAIN configured_artifacts :
                     /\ configured_artifacts[n] # EmptyStr
                     /\ \E field \in {r.name, r.tag_name, r.body} :
                          Contains(lower(configured_artifacts[n]), lower(field))}
  IN  configured_artifacts[CHOOSE n \in matching : \A m \in matching : n <= m]

\* C15, amended: the configured key chosen is the first key, in allow-list
\* order, whose lowercase form is a substring of the lowercased name, tag or
\* body; the field in which a key matches does not decide between keys
C15_ListOrderOnly ==
  (Classified /\ SomeKeyIn(LastProcessed)) => StoredUnder(ByListOrder(LastProcessed))

\* a record whose name has the second key and whose tag has the first one was
\* stored under the first key of the list
C15_Witness ==
  /\ Classified
  /\ Len(configured_artifacts) = 2
  /\ KeysIn(LastProcessed.name) = <<configured_artifacts[2]>>
  /\ KeysIn(LastProcessed.tag_name) = <<configured_artifacts[1]>>
  /\ StoredUnder(configured_artifacts[1])

\* the part of a tag before its first "/"
BeforeFirstSlash(tag) ==
  CHOOSE pre \in {SubSeq(tag, 1, n) : n \in 0..Len(tag)} :
    /\ ~HasSlash(pre)
    /\ Len(pre) < Len(tag)
    /\ tag[Len(pre) + 1] = "/"

\* a slot after a ReleaseInfo has been stored into it, by mode
SlotWith(slot, info) ==
  IF fetch_history THEN Append(slot, info)
  ELSE IF info.is_prerelease /\ slot[2] = None THEN <<slot[1], info>>
  ELSE IF ~info.is_prerelease /\ slot[1] = None THEN <<info, slot[2]>>
  ELSE slot

\* where a record that matches no configured key has gone
UnmatchedIsStored ==
  (Classified /\ ~SomeKeyIn(LastProcessed)) =>
    IF HasSlash(LastProcessed.tag_name)
      THEN StoredUnder(BeforeFirstSlash(LastProcessed.tag_name))
      ELSE StoredUnder(EmptyStr)

\* a record that matches no key and has no "/" in its tag ends history mode
\* with a KeyError exactly when the accumulator has no slot for the empty key
KeyErrorOnlyForEmptyKey ==
  pc = "exit" =>
    /\ exception = "KeyError"
    /\ fetch_history
    /\ ~SomeKeyIn(LastProcessed)
    /\ ~HasSlash(LastProcessed.tag_name)
    /\ ~Has(artifacts_releases, EmptyStr)

\* the step on a record that matches no key and has "/" in its tag
DerivedSlotStep ==
  (/\ pc = "for"
   /\ ~response.releases[rel_idx].draft
   /\ ~SomeKeyIn(response.releases[rel_idx])
   /\ HasSlash(response.releases[rel_idx].tag_name)) =>
    LET key == BeforeFirstSlash(response.releases[rel_idx].tag_name)
        info == MakeReleaseInfo(response.releases[rel_idx])
        before == IF Has(artifacts_releases, key) THEN Get(artifacts_releases, key)
                  ELSE EmptySlot(fetch_history)
    IN  /\ Has(artifacts_releases', key)
        /\ Get(artifacts_releases', key) = SlotWith(before, info)
        /\ \A k \in Keys(artifacts_releases) \ {key} :
             /\ Has(artifacts_releases', k)
             /\ Get(artifacts_releases', k) = Get(artifacts_releases, k)

\* a key of the accumulator stays a key
KeysStay == Keys(artifacts_releases) \subseteq Keys(artifacts_releases')

\* C16: a record that matches no configured key goes under the part of its
\* tag before the first "/", case preserved, in a slot that is created empty
\* for the mode when the key is new and is kept when it is known, and that
\* stays; without "/" in the tag its key is the empty string
C16_TagDerivedKey ==
  [](UnmatchedIsStored /\ KeyErrorOnlyForEmptyKey) /\ [][DerivedSlotStep /\ KeysStay]_vars

\* two records were stored under the key "B" their tags begin with, the
\* second in the slot the first created
C16_Witness ==
  /\ Classified
  /\ Len(processed) = 2
  /\ \A n \in 1..2 :
       /\ ~SomeKeyIn(processed[n])
       /\ HasSlash(processed[n].tag_name)
       /\ BeforeFirstSlash(processed[n].tag_name) = <<"B">>
  /\ Has(artifacts_releases, <<"B">>)
  /\ ~Has(artifacts_releases, <<"b">>)
  /\ \/ fetch_history /\ Len(Get(artifacts_releases, <<"B">>)) = 2
     \/ ~fetch_history /\ Get(artifacts_releases, <<"B">>)
                            = <<MakeReleaseInfo(K3), MakeReleaseInfo(K6)>>

(* ---------------------------------------------------------------------- *)
(* Paging                                                                  *)
(* ---------------------------------------------------------------------- *)

\* a response after which the loop asks for the next page
AsksForMore(resp) ==
  /\ resp.status = 200
  /\ Len(resp.releases) = per_page
  /\ resp.remaining = NoHeader \/ resp.remaining >= 1

\* a request about to be made: page 1 with nothing received, or the page
\* after a full page without a rate-limit condition, all pages before full
RequestsInOrder ==
  pc = "request" =>
    /\ page >= 1
    /\ Len(fetched) = per_page * (page - 1)
    /\ page = 1 => response = NoResponse
    /\ page > 1 => AsksForMore(response)

\* a page is requested once, and the number moves from 1 upwards by one
PageStep ==
  /\ pc = "request" => pc' \in {"for", "returned"}
  /\ (pc # "request" /\ pc' = "request") =>
       \/ pc = "loop" /\ page' = 1 /\ page = 1
       \/ pc = "after_for" /\ page' = page + 1
  /\ page' # page =>
       \/ pc' = "request" /\ page' = page + 1
       \/ pc = "returned" /\ page' = 1

\* the call is inside "while True"
InLoop == pc \in {"request", "for", "after_for"}

\* a number that is never negative: the records the API has yet to serve
\* count most, then the position within one pass of the loop
Variant ==
  IF ~InLoop THEN 0
  ELSE 1 + (MaxReleases - served) * (per_page + 2)
         + (IF pc = "request" THEN 0
            ELSE IF pc = "after_for" THEN 1
            ELSE 2 + Len(response.releases) - rel_idx)

\* the for loop stands at a record of the page
LoopGoesOn == pc = "for" => rel_idx \in 1..Len(response.releases)

\* every step inside the loop brings the loop nearer to its end
LoopStep == InLoop => Variant' < Variant

\* C17: pages are requested in the order 1, 2, 3, ..., each once; a page is
\* requested only after a full page with status 200 and no rate-limit
\* condition; and the loop ends, as each of its steps lowers a natural
\* number
C17_PagingTerminates ==
  /\ [](RequestsInOrder /\ LoopGoesOn /\ Variant >= 0)
  /\ [][PageStep /\ LoopStep]_vars

\* the loop has ended on its second page, a short one
C17_Witness ==
  /\ pc = "returned"
  /\ page = 2
  /\ ret_path = "normal"
  /\ Len(fetched) > per_page
  /\ Len(response.releases) < per_page

\* the accumulator holds the ReleaseInfo of a record in one of its sequences
HeldInHistory(r) ==
  \E k \in Keys(artifacts_releases) :
    \E n \in DOMAIN Get(artifacts_releases, k) :
      Get(artifacts_releases, k)[n] = MakeReleaseInfo(r)

\* C18: in history mode, with no rate-limit or transport condition, once the
\* for loop is left every record received has been taken up and every
\* non-draft one is held, and after a full page the next page is requested
C18_HistoryTakesUpEveryRecord ==
  (fetch_history /\ pc # "for" /\ ret_path \in {"none", "normal"}) =>
    /\ processed = fetched
    /\ \A n \in DOMAIN fetched : ~fetched[n].draft => HeldInHistory(fetched[n])
    /\ (pc = "request" /\ page > 1) => Len(fetched) = per_page * (page - 1)

(* ---------------------------------------------------------------------- *)
(* Configuration                                                           *)
(* ---------------------------------------------------------------------- *)

\* the value of the highest source that provides a string: the variable when
\* it is not empty, else the option when it is not empty, else the first
\* configuration file that has the key, else the default
FromHighestSource(name, option, section, key, default) ==
  IF Has(environ, name) /\ Get(environ, name) # EmptyStr THEN Get(environ, name)
  ELSE IF Has(argv, option) /\ Get(argv, option) # EmptyStr THEN Get(argv, option)
  ELSE IF \E n \in DOMAIN config_files :
            config_files[n].exists /\ Has(config_files[n].values, <<section, key>>)
    THEN Get(config_files[CHOOSE n \in DOMAIN config_files :
                            /\ config_files[n].exists
                            /\ Has(config_files[n].values, <<section, key>>)
                            /\ \A m \in 1..(n - 1) :
                                 ~(/\ config_files[m].exists
                                   /\ Has(config_files[m].values, <<section, key>>))].values,
             <<section, key>>)
  ELSE default

\* the same for a flag: a variable that is set decides by its string, a flag
\* that is given says true, a configuration value decides by its string
FlagFromHighestSource(name, option, section, key) ==
  IF Has(environ, name) THEN lower(Get(environ, name)) \in TrueStrings
  ELSE IF Has(argv, option) THEN TRUE
  ELSE lower(FromHighestSource(name, option, section, key, EmptyStr)) \in TrueStrings

\* C19: every setting has the value of its highest source, in the order
\* environment variable, command-line option, configuration file, default; a
\* flag is true exactly for "true", "1", "yes", "on" in any case, and a
\* variable that is set to anything else makes it false whatever the lower
\* sources say
C19_HighestSourceWins ==
  /\ artifacts_root = FromHighestSource(ARTIFACTS_PATH, OptArtifactsPath,
                                        "artifacts", "path", DefaultArtifactsPath)
  /\ debug = FlagFromHighestSource(DEBUG_ENV_VAR, OptDebug, "settings", "debug")
  /\ fetch_history = FlagFromHighestSource(ARTIFACT_HISTORY, OptHistory,
                                           "artifacts", "history")
  /\ pc \in {"loop", "request"} =>
       repositories = SplitOn(FromHighestSource(ENV_VAR_NAME, OptRepos,
                                                "repositories", "repos", EmptyStr), ",")
  /\ pc = "request" =>
       LET repo == owner \o <<"/">> \o repo_name
       IN  artifacts_releases =
             InitReleases(SplitOn(FromHighestSource(MonorepoEnvName(repo),
                                                    MonorepoOption(repo), "monorepos",
                                                    lower(repo), EmptyStr), ","),
                          fetch_history)

\* no source has a repository list
NoSourceOfRepositories ==
  /\ ~Has(environ, ENV_VAR_NAME) \/ Get(environ, ENV_VAR_NAME) = EmptyStr
  /\ ~Has(argv, OptRepos) \/ Get(argv, OptRepos) = EmptyStr
  /\ \A n \in DOMAIN config_files :
       ~(config_files[n].exists
         /\ Has(config_files[n].values, <<"repositories", "repos">>))

\* C20: a run in which no source has a repository list ends with a non-zero
\* exit status and has requested no page and written no file
C20_NoRepositoriesExits ==
  NoSourceOfRepositories =>
    /\ pc \in {"main", "exit"}
    /\ pc = "exit" => exit_status # 0 /\ exception = "SystemExit"
    /\ served = 0
    /\ response = NoResponse
    /\ fetched = << >>
    /\ files = {}
    /\ dirs = {}

\* the run has ended for want of a repository list
C20_Witness ==
  /\ NoSourceOfRepositories
  /\ pc = "exit"
  /\ exit_status = 1
  /\ repositories = NoRepositories

(* ---------------------------------------------------------------------- *)
(* The batch                                                               *)
(* ---------------------------------------------------------------------- *)

\* an identifier that, trimmed, has no "/" or more than one
Malformed(repo) ==
  Cardinality({i \in DOMAIN Strip(repo) : Strip(repo)[i] = "/"}) # 1

\* process_repository is past the unpacking of the identifier
InRepository == pc \in {"request", "for", "after_for", "returned", "items", "summary"}

\* pages are requested and files written only for a well-formed identifier,
\* and a run that no exception ended has gone through the whole list
OnlyWellFormedAreFetched ==
  /\ InRepository =>
       /\ ~Malformed(repositories[repo_idx])
       /\ Split(Strip(repositories[repo_idx])) = <<owner, repo_name>>
  /\ (pc = "exit" /\ exception = "") => repo_idx > Len(repositories)

\* the step of main on a malformed identifier: on to the next one, and nothing
\* else; on a well-formed one: to the request of its first page
SkipStep ==
  (pc = "loop" /\ repo_idx <= Len(repositories)) =>
    IF Malformed(repositories[repo_idx])
      THEN /\ pc' = "loop"
           /\ repo_idx' = repo_idx + 1
           /\ UNCHANGED <<exit_status, exception, response, served, fetched, files, dirs>>
      ELSE pc' = "request" /\ repo_idx' = repo_idx

\* C21: for an identifier that, trimmed, has no "/" or more than one,
\* process_repository requests no page and writes no file, and the run goes
\* on with the rest of the list
C21_MalformedIsSkipped == []OnlyWellFormedAreFetched /\ [][SkipStep]_vars

\* the run has come to its end over a list of three, of which it skipped the
\* first and the third, and has written for the second
C21_Witness ==
  /\ pc = "exit"
  /\ exception = ""
  /\ Len(repositories) = 3
  /\ Malformed(repositories[1])
  /\ HasSlash(repositories[1])
  /\ Malformed(repositories[3])
  /\ files # {}

\* a call of save_release_notes that found no file at its path and left none:
\* the directories could not be made or the file could not be written
FailedSave ==
  /\ AtSave
  /\ CurRelease # None
  /\ CurPath \notin FilePaths(files)
  /\ CurPath \notin dirs'
  /\ CurPath \notin FilePaths(files')

\* such a call counts the release as skipped and the loops go on with the
\* next release, with no exception and the result and the list as they were
FailedSaveStep ==
  FailedSave =>
    /\ files' = files
    /\ written' = written
    /\ skipped' = skipped + 1
    /\ pc' = "items"
    /\ art_idx' = art_idx
    /\ item_idx' = item_idx + 1
    /\ exception' = ""
    /\ exit_status' = 0
    /\ UNCHANGED <<result, repositories, repo_idx>>

\* at the summary every release of the result has been passed to the writer
\* and counted, and a run that no exception ended has gone through the list
EveryReleaseIsPassed ==
  /\ CountsAddUp
  /\ pc = "summary" => AllPassedToWriter
  /\ (pc = "exit" /\ exception = "") => repo_idx > Len(repositories)

\* C22: when the directories cannot be made or the file cannot be written,
\* save_release_notes returns False without raising, the release is counted
\* as skipped in the summary, and the other releases of the repository and
\* the later repositories are still passed to the writer
C22_FailedSaveIsSkipped == []EveryReleaseIsPassed /\ [][FailedSaveStep]_vars

\* the summary of the last entry of a list of two: the first release passed
\* to the writer has no file and a later one has
C22_Witness ==
  /\ pc = "summary"
  /\ repo_idx = Len(repositories)
  /\ repo_idx > 1
  /\ Items(result[1].v, fetch_history) # << >>
  /\ FilePath(owner, repo_name, result[1].k, Items(result[1].v, fetch_history)[1].tag)
       \notin FilePaths(files)
  /\ Get(summary, result[1].k).skipped >= 1
  /\ \E item \in ItemsOfResult :
       FilePath(owner, repo_name, item.key, item.release.tag) \in FilePaths(files)

\* the files of the output tree that lie under the running repository
FilesOfRepository ==
  {f \in files : StartsWith(f.path, BasePath(owner, repo_name, EmptyStr))}

\* while the pages of a repository are requested, and until the result is
\* handed to the loops of the writer, no file of that repository is written;
\* and the pages requested are those of the entry the loop of main stands at
RequestsBeforeWrites ==
  pc \in {"request", "for", "after_for", "returned"} =>
    /\ FilesOfRepository = {}
    /\ Split(Strip(repositories[repo_idx])) = <<owner, repo_name>>

\* a file is written only inside the loops of the writer, under the running
\* repository; from those loops the way leads to the summary and to the next
\* entry of the list, never back to a request; the list is gone through in
\* order, one entry at a time
OrderStep ==
  /\ files' # files =>
       /\ pc = "items" /\ pc' = "items"
       /\ repo_idx' = repo_idx
       /\ \A f \in files' \ files : StartsWith(f.path, BasePath(owner, repo_name, EmptyStr))
  /\ pc' = "request" => pc \in {"loop", "after_for"}
  /\ pc \in {"items", "summary"} => pc' \in {"items", "summary", "loop", "exit"}
  /\ repo_idx' # repo_idx =>
       /\ repo_idx' = repo_idx + 1
       /\ pc \in {"loop", "summary"}
       /\ pc' = "loop"

\* C23: the repositories are processed one after another in list order: no
\* page of a repository is requested before the last file of the one before
\* it is written, and within a repository every page request comes before
\* every file write
C23_OneRepositoryAfterAnother == []RequestsBeforeWrites /\ [][OrderStep]_vars

\* a page of the third entry of the list is about to be requested, with
\* files of the first entry written
C23_Witness ==
  /\ pc = "request"
  /\ repo_idx = 3
  /\ files # {}
  /\ FilesOfRepository = {}

(* ---------------------------------------------------------------------- *)
(* The result and the accumulator                                          *)
(* ---------------------------------------------------------------------- *)

\* a value of the shape of the mode: a sequence of ReleaseInfo in history
\* mode, a pair in latest-only mode
ShapeOfMode(v) ==
  IF fetch_history THEN \A i \in DOMAIN v : v[i] # None
  ELSE Len(v) = 2

\* C24: on every return path of get_latest_releases every value of the
\* result has the shape of the mode fixed at startup, so process_repository
\* never passes an absent value to save_release_notes as a release
C24_ResultShapeAgreesWithMode ==
  /\ pc = "returned" => \A n \in DOMAIN result : ShapeOfMode(result[n].v)
  /\ AtSave => CurRelease # None
  /\ exception # "AttributeError"

\* C25: at the storage step of a non-draft record, in both modes and for any
\* allow-list, the accumulator has a slot for the key of the record, so that
\* storing neither fails on a missing key nor creates a slot
C25_SlotExistsAtStorage ==
  /\ (pc = "for" /\ ~IsDraft(response.releases[rel_idx])) =>
       Has(WithDerivedSlot(artifacts_releases, configured_artifacts,
                           response.releases[rel_idx], fetch_history),
           MatchedArtifact(configured_artifacts, response.releases[rel_idx]))
  /\ exception # "KeyError"

====
